---------------------------- MODULE Spec2Model ----------------------------
(***************************************************************************)
(* A model of netcup-dyndns: the DNS record dataclasses and the merge      *)
(* DNSRecordSet.add (src/nc_api/dns.py), the API session NcAPI             *)
(* (src/nc_api/nc_api.py) and one synchronisation pass of the command line *)
(* script (src/dyndns.py).                                                 *)
(*                                                                         *)
(* Python's None is the empty tuple <<>> and a present value x is <<x>>,   *)
(* so that an optional field can be compared with any other.               *)
(***************************************************************************)
EXTENDS Integers, Sequences, FiniteSets, TLC

VARIABLES
    dnsrecords,   \* DNSRecordSet.dnsrecords: the list of DNSRecord
    record,       \* the argument of the last DNSRecordSet.add (<<>>: none yet)
    ret,          \* what the last add returned: <<TRUE>>, <<FALSE>>; <<>>: nothing
    raised,       \* the exception the last add raised ("": none)
    old_records,  \* dnsrecords as they were when the last add was called
    self_rec,     \* DNSRecord.update: the record self
    other_rec,    \* DNSRecord.update: the argument record
    self_before,  \* self as it was when update was called
    nu_before,    \* self.needs_update(record) evaluated just before update
    upd_ret,      \* what update returned (<<>>: not called yet)
    set_ab,       \* a record set merged A first, AAAA second
    set_ba,       \* the same record set merged AAAA first, A second
    rec_a,        \* the desired A record of the two merges
    rec_aaaa,     \* the desired AAAA record of the two merges
    set_0,        \* that record set before the two merges
    merged,       \* how many of the two merges were done (0..2)
    pc,           \* dyndns: the next step of the pass
    session_id,   \* NcAPI._session_id
    stack,        \* the actions whose _send is suspended in self.__exit__()
    exc,          \* the exception in flight; at the end, the one surfaced
    sent,         \* every request posted so far, with the remote's answer
    payload,      \* the payload of the last request posted
    update_mode,  \* dyndns: the flag --update
    zones,        \* domains.get("zones"): the domains still to work on
    domainname,   \* dyndns: the domain worked on
    settings,     \* dyndns: that domain's entry of the hosts file
    zone,         \* dyndns: the zone read by infoDnsZone
    old_set,      \* dyndns: the record set read by infoDnsRecords
    changed,      \* dyndns: changed
    changed_ttl   \* dyndns: changed_ttl

mergeVars   == <<dnsrecords, record, ret, raised, old_records>>
recordVars  == <<self_rec, other_rec, self_before, nu_before, upd_ret>>
commuteVars == <<set_ab, set_ba, rec_a, rec_aaaa, set_0, merged>>
sessionVars == <<pc, session_id, stack, exc, sent, payload>>
passVars    == <<update_mode, zones, domainname, settings, zone, old_set,
                 changed, changed_ttl>>
syncVars    == <<sessionVars, passVars>>
vars == <<mergeVars, recordVars, commuteVars, syncVars>>

---------------------------------------------------------------------------
(* Bounds of the model *)

\* the longest record list a merge may produce
MaxRecords == 3
\* the longest record list fetched from the remote before the merges
MaxFetched == 2

---------------------------------------------------------------------------
(* Values *)

None == <<>>
Some(x) == <<x>>

Hostnames    == {"www", "mail"}
Types        == {"A", "AAAA", "CNAME"}
Destinations == {"192.0.2.1", "2001:db8::1"}

\* DNSRecord(hostname, destination, type, id=None, priority=0,
\*           deleterecord=False, state=None)
DNSRecord(hostname, destination, type, id, priority, deleterecord, state) ==
    [hostname |-> hostname, destination |-> destination, type |-> type,
     id |-> id, priority |-> priority, deleterecord |-> deleterecord,
     state |-> state]

\* a record as the callers of add build it: only the three mandatory fields
DesiredRecord(hostname, type, destination) ==
    DNSRecord(hostname, destination, type, None, 0, FALSE, None)

DesiredRecords ==
    {DesiredRecord(h, t, d) : h \in Hostnames, t \in Types, d \in Destinations}

\* a record as infoDnsRecords builds it from the remote's answer
FetchedRecord(id, hostname, type, destination) ==
    DNSRecord(hostname, destination, type, Some(id), 0, FALSE, Some("yes"))

---------------------------------------------------------------------------
(* DNSRecord *)

\* a needs_update that compares the destination alone
needs_update_destination_only(self, rec) ==
    self.destination # rec.destination

needs_update(self, rec) ==
    self.destination # rec.destination \/ self.type # rec.type

\* check_and_write(attr) of update: the record after it and whether it wrote
check_and_write(self, rec, attr) ==
    IF self[attr] = rec[attr]
    THEN [rec |-> self, modified |-> <<>>]
    ELSE [rec |-> [self EXCEPT ![attr] = rec[attr]], modified |-> <<None>>]

\* an update without check_and_write("type")
update_destination_only(self, rec) ==
    LET w1 == check_and_write(self, rec, "destination")
    IN  [rec |-> w1.rec, ret |-> w1.modified # <<>>]

\* an update that returns True whether it wrote or not
update_returns_true(self, rec) ==
    LET w1 == check_and_write(self, rec, "destination")
        w2 == check_and_write(w1.rec, rec, "type")
    IN  [rec |-> w2.rec, ret |-> TRUE]

\* update: [rec |-> self afterwards, ret |-> the value returned]
update(self, rec) ==
    LET w1 == check_and_write(self, rec, "destination")
        w2 == check_and_write(w1.rec, rec, "type")
    IN  [rec |-> w2.rec, ret |-> (w1.modified \o w2.modified) # <<>>]

---------------------------------------------------------------------------
(* DNSRecordSet *)

\* the positions in the list of the records with the given hostname, in order
RECURSIVE same_host_positions(_, _, _)
same_host_positions(recs, hostname, i) ==
    IF i > Len(recs) THEN <<>>
    ELSE (IF recs[i].hostname = hostname THEN <<i>> ELSE <<>>)
         \o same_host_positions(recs, hostname, i + 1)

get_by_hostname(recs, hostname) ==
    LET pos == same_host_positions(recs, hostname, 1)
    IN  [k \in 1..Len(pos) |-> recs[pos[k]]]

\* self.dnsrecords with the record at position i replaced
ReplaceAt(recs, i, r) == [recs EXCEPT ![i] = r]

\* lines 124-127: two matches, record.type is neither A nor AAAA.
\* same_hosts[0] is updated, then self.dnsrecords.delete raises: a list has
\* no method delete.
add_collapse(recs, pos, rec) ==
    [recs |-> ReplaceAt(recs, pos[1], update(recs[pos[1]], rec).rec),
     ret  |-> None, raised |-> "AttributeError"]

\* an add_same_type that updates same_hosts[0] whatever its type
add_first_match(recs, pos, rec) ==
    LET u == update(recs[pos[1]], rec)
    IN  [recs |-> ReplaceAt(recs, pos[1], u.rec), ret |-> Some(u.ret),
         raised |-> ""]

\* lines 128-131: two matches, record.type is A or AAAA.
\* next(filter(...)) is the first match of that type; none: StopIteration.
add_same_type(recs, pos, rec) ==
    LET hits == SelectSeq(pos, LAMBDA p : recs[p].type = rec.type)
    IN  IF hits = <<>>
        THEN [recs |-> recs, ret |-> None, raised |-> "StopIteration"]
        ELSE LET u == update(recs[hits[1]], rec)
             IN  [recs |-> ReplaceAt(recs, hits[1], u.rec), ret |-> Some(u.ret),
                  raised |-> ""]

\* a pair test that knows one direction only
is_dual_stack_pair_one_way(rec, first) ==
    rec.type = "A" /\ first.type = "AAAA"

\* lines 132-133: the test for the dual stack pair
is_dual_stack_pair(rec, first) ==
    \/ (rec.type = "A" /\ first.type = "AAAA")
    \/ (rec.type = "AAAA" /\ first.type = "A")

\* an append without its return True: the final return False is reached
add_append_returns_false(recs, rec) ==
    [recs |-> Append(recs, rec), ret |-> Some(FALSE), raised |-> ""]

\* lines 134-135 and 141-142: self.dnsrecords.append(record); return True
add_append(recs, rec) ==
    [recs |-> Append(recs, rec), ret |-> Some(TRUE), raised |-> ""]

\* an overwrite that puts the desired record in the place of the old one
add_overwrite_replaces(recs, pos, rec) ==
    [recs |-> ReplaceAt(recs, pos[1], rec),
     ret  |-> Some(needs_update(recs[pos[1]], rec)), raised |-> ""]

\* lines 136-138: return same_hosts[0].update(record)
add_overwrite(recs, pos, rec) ==
    LET u == update(recs[pos[1]], rec)
    IN  [recs |-> ReplaceAt(recs, pos[1], u.rec), ret |-> Some(u.ret),
         raised |-> ""]

\* an add without the dual stack cases: a match is always overwritten
add_always_overwrite(recs, rec) ==
    LET pos == same_host_positions(recs, rec.hostname, 1)
    IN  IF pos # <<>>
        THEN add_overwrite(recs, pos, rec)
        ELSE add_append(recs, rec)

\* DNSRecordSet.add: [recs |-> the list afterwards, ret |-> Some(the value
\* returned) or None, raised |-> the name of the exception raised or ""]
add(recs, rec) ==
    LET pos == same_host_positions(recs, rec.hostname, 1)
    IN  IF pos # <<>>
        THEN IF Len(pos) = 2
             THEN IF rec.type \notin {"A", "AAAA"}
                  THEN add_collapse(recs, pos, rec)
                  ELSE add_same_type(recs, pos, rec)
             ELSE IF is_dual_stack_pair(rec, recs[pos[1]])
                  THEN add_append(recs, rec)
                  ELSE add_overwrite(recs, pos, rec)
        ELSE add_append(recs, rec)

---------------------------------------------------------------------------
(* The hostname invariant of a record set *)

HostRecords(recs, h) == get_by_hostname(recs, h)

HostTypes(recs, h) ==
    {HostRecords(recs, h)[k].type : k \in 1..Len(HostRecords(recs, h))}

\* at most two records per hostname, two only as an A and an AAAA record
HostnameInvariant(recs) ==
    \A h \in Hostnames :
        \/ Len(HostRecords(recs, h)) <= 1
        \/ /\ Len(HostRecords(recs, h)) = 2
           /\ HostTypes(recs, h) = {"A", "AAAA"}

---------------------------------------------------------------------------
(* Merging into a record set: the callers of DNSRecordSet.add *)

\* the record lists infoDnsRecords can build that satisfy the hostname
\* invariant (the empty one included); the remote numbers its records
FetchedSets ==
    LET Triples == Hostnames \X Types \X Destinations
        Lists   == UNION {[1..n -> Triples] : n \in 0..MaxFetched}
        Build(f) == [i \in 1..Len(f) |->
                        FetchedRecord(i, f[i][1], f[i][2], f[i][3])]
    IN  {s \in {Build(f) : f \in Lists} : HostnameInvariant(s)}

\* the record lists a caller builds itself, satisfying the hostname
\* invariant: no record has an id
BuiltSets ==
    LET Triples == Hostnames \X Types \X Destinations
        Lists   == UNION {[1..n -> Triples] : n \in 0..MaxFetched}
        Build(f) == [i \in 1..Len(f) |->
                        DesiredRecord(f[i][1], f[i][2], f[i][3])]
    IN  {s \in {Build(f) : f \in Lists} : HostnameInvariant(s)}

MergeIdle ==
    /\ dnsrecords = <<>>
    /\ record = None
    /\ ret = None
    /\ raised = ""
    /\ old_records = <<>>

RecordIdle ==
    /\ self_rec = None
    /\ other_rec = None
    /\ self_before = None
    /\ nu_before = None
    /\ upd_ret = None

CommuteIdle ==
    /\ set_ab = <<>>
    /\ set_ba = <<>>
    /\ rec_a = None
    /\ rec_aaaa = None
    /\ set_0 = <<>>
    /\ merged = 0

SyncIdle ==
    /\ pc = "done"
    /\ session_id = None
    /\ stack = <<>>
    /\ exc = None
    /\ sent = <<>>
    /\ payload = None
    /\ update_mode = FALSE
    /\ zones = <<>>
    /\ domainname = None
    /\ settings = None
    /\ zone = None
    /\ old_set = <<>>
    /\ changed = FALSE
    /\ changed_ttl = FALSE

Init ==
    /\ dnsrecords \in FetchedSets
    /\ record = None
    /\ ret = None
    /\ raised = ""
    /\ old_records = dnsrecords
    /\ RecordIdle
    /\ CommuteIdle
    /\ SyncIdle

\* records.add(rec): one call of DNSRecordSet.add on the record set.  An
\* exception ends the caller, so no merge follows one that raised.
Add(rec) ==
    /\ raised = ""
    /\ Len(add(dnsrecords, rec).recs) <= MaxRecords
    /\ old_records' = dnsrecords
    /\ record' = Some(rec)
    /\ dnsrecords' = add(dnsrecords, rec).recs
    /\ ret' = add(dnsrecords, rec).ret
    /\ raised' = add(dnsrecords, rec).raised
    /\ UNCHANGED <<recordVars, commuteVars, syncVars>>

Next == \E rec \in DesiredRecords : Add(rec)

Spec == Init /\ [][Next]_vars

---------------------------------------------------------------------------
(* The merge claims, about the last call of add: old_records is the list  *)
(* before it, record[1] the desired record, dnsrecords the list after it. *)

Called == record # None

\* the positions in old_records of the records with the desired hostname
OldPos == same_host_positions(old_records, record[1].hostname, 1)

\* the old record at position p with the desired destination and type
Overwritten(p) ==
    [old_records[p] EXCEPT !.destination = record[1].destination,
                           !.type = record[1].type]

\* the old record at position p differs from the desired one
Differs(p) ==
    \/ old_records[p].destination # record[1].destination
    \/ old_records[p].type # record[1].type

\* the old records with the desired hostname are one A and one AAAA record
OldDualStack ==
    /\ Len(OldPos) = 2
    /\ {old_records[OldPos[1]].type, old_records[OldPos[2]].type}
           = {"A", "AAAA"}

\* no two records of the list share hostname and type
UniqueHostType(recs) ==
    \A i, j \in 1..Len(recs) :
        (recs[i].hostname = recs[j].hostname /\ recs[i].type = recs[j].type)
            => i = j

\* C1: starting from a record set that is empty or satisfies the hostname
\* invariant, after any sequence of merges every hostname has at most two
\* records, two only as one A and one AAAA record, and no two records share
\* hostname and type.
C1_HostnameInvariant ==
    HostnameInvariant(dnsrecords) /\ UniqueHostType(dnsrecords)

\* C2: a merge into a list with no record of the desired hostname appends
\* the desired record as the last element, makes the list one longer and
\* returns True.
C2_ZeroMatchesAppend ==
    (Called /\ OldPos = <<>>) =>
        /\ raised = ""
        /\ ret = Some(TRUE)
        /\ Len(dnsrecords) = Len(old_records) + 1
        /\ dnsrecords[Len(dnsrecords)] = record[1]
        /\ SubSeq(dnsrecords, 1, Len(old_records)) = old_records

C2_Witness ==
    /\ Called /\ OldPos = <<>>
    /\ old_records # <<>>
    /\ dnsrecords = Append(old_records, record[1])

\* the case of C3: one match, of the desired type or not its dual stack
\* partner
C3_Case ==
    /\ Called
    /\ Len(OldPos) = 1
    /\ \/ old_records[OldPos[1]].type = record[1].type
       \/ {old_records[OldPos[1]].type, record[1].type} # {"A", "AAAA"}

\* C3: with exactly one record of the desired hostname, whose type is the
\* desired one or does not form the A/AAAA pair with it, the merge
\* overwrites that record's destination and type in place, keeps the list's
\* length, and returns True iff destination or type differed.
C3_SoleMatchOverwritten ==
    C3_Case =>
        /\ raised = ""
        /\ Len(dnsrecords) = Len(old_records)
        /\ dnsrecords = ReplaceAt(old_records, OldPos[1], Overwritten(OldPos[1]))
        /\ ret = Some(Differs(OldPos[1]))

C3_Witness ==
    /\ C3_Case
    /\ old_records[OldPos[1]].type = "CNAME"
    /\ record[1].type = "A"
    /\ old_records[OldPos[1]].destination = record[1].destination
    /\ ret = Some(TRUE)

\* the identical desired record: the case C3 singles out
C3_IdenticalWitness ==
    /\ C3_Case
    /\ ~Differs(OldPos[1])
    /\ ret = Some(FALSE)
    /\ dnsrecords = old_records

\* the case of C4: the sole match and the desired record are A and AAAA
C4_Case ==
    /\ Called
    /\ Len(OldPos) = 1
    /\ old_records[OldPos[1]].type # record[1].type
    /\ {old_records[OldPos[1]].type, record[1].type} = {"A", "AAAA"}

\* C4: when the sole record of the hostname is an A record and the desired
\* one an AAAA record, or the reverse, the merge appends the desired record,
\* leaves the existing one as it was, leaves exactly two records of that
\* hostname, one A and one AAAA, and returns True.
C4_DualStackAppend ==
    C4_Case =>
        /\ raised = ""
        /\ ret = Some(TRUE)
        /\ dnsrecords = Append(old_records, record[1])
        /\ dnsrecords[OldPos[1]] = old_records[OldPos[1]]
        /\ Len(HostRecords(dnsrecords, record[1].hostname)) = 2
        /\ HostTypes(dnsrecords, record[1].hostname) = {"A", "AAAA"}

C4_Witness ==
    /\ C4_Case
    /\ old_records[OldPos[1]].type = "AAAA"
    /\ record[1].type = "A"
    /\ Len(HostRecords(dnsrecords, record[1].hostname)) = 2

\* the case of C6: A and AAAA exist, the desired type is neither
C6_Case ==
    /\ Called
    /\ OldDualStack
    /\ record[1].type \notin {"A", "AAAA"}

\* C6: with an A and an AAAA record of the hostname, merging a record of
\* another type completes normally, leaves exactly one record of the
\* hostname, with the desired type and destination and the id of the first
\* existing match, and returns True.
C6_CollapseToOne ==
    C6_Case =>
        /\ raised = ""
        /\ ret = Some(TRUE)
        /\ HostRecords(dnsrecords, record[1].hostname)
              = <<Overwritten(OldPos[1])>>

\* the case of C7: A and AAAA exist, the desired type is one of them
C7_Case ==
    /\ Called
    /\ OldDualStack
    /\ record[1].type \in {"A", "AAAA"}

\* the position of the old record of the desired type, of the two matches
C7_Pos ==
    IF old_records[OldPos[1]].type = record[1].type
    THEN OldPos[1] ELSE OldPos[2]

\* C7: with an A and an AAAA record of the hostname, merging an A or AAAA
\* record updates only the existing record of that type, leaves the other
\* record and the length as they were, and returns True iff the
\* destination differed.
C7_DualStackUpdate ==
    C7_Case =>
        /\ raised = ""
        /\ Len(dnsrecords) = Len(old_records)
        /\ dnsrecords = ReplaceAt(old_records, C7_Pos,
              [old_records[C7_Pos] EXCEPT !.destination = record[1].destination])
        /\ ret = Some(old_records[C7_Pos].destination # record[1].destination)

C7_Witness ==
    /\ C7_Case
    /\ C7_Pos = OldPos[2]
    /\ old_records[C7_Pos].destination # record[1].destination
    /\ ret = Some(TRUE)
    /\ dnsrecords[C7_Pos].destination = record[1].destination

---------------------------------------------------------------------------
(* DNSRecord.needs_update and DNSRecord.update on a pair of records *)

\* records with every field varied
AnyRecords ==
    {DNSRecord(h, d, t, id, prio, del, st) :
        h \in Hostnames, d \in Destinations, t \in Types,
        id \in {None, Some(1)}, prio \in {0, 10}, del \in BOOLEAN,
        st \in {None, Some("yes")}}

InitRecord ==
    /\ self_rec \in {Some(r) : r \in AnyRecords}
    /\ other_rec \in {Some(r) : r \in AnyRecords}
    /\ self_before = self_rec
    /\ nu_before = None
    /\ upd_ret = None
    /\ MergeIdle
    /\ CommuteIdle
    /\ SyncIdle

\* changed = self.needs_update(record) followed by self.update(record)
Update ==
    /\ upd_ret = None
    /\ self_before' = self_rec
    /\ nu_before' = Some(needs_update(self_rec[1], other_rec[1]))
    /\ self_rec' = Some(update(self_rec[1], other_rec[1]).rec)
    /\ upd_ret' = Some(update(self_rec[1], other_rec[1]).ret)
    /\ UNCHANGED <<other_rec, mergeVars, commuteVars, syncVars>>

NextRecord == Update

SpecRecord == InitRecord /\ [][NextRecord]_vars

\* destination or type of the two records differ
FieldsDiffer(r, o) == r.destination # o.destination \/ r.type # o.type

\* C8: needs_update is true iff destination or type differ, whatever the
\* other fields are; update returns the value needs_update had before the
\* call, and after it needs_update is false and self has the destination
\* and type of the other record.
C8_NeedsUpdateAndUpdate ==
    /\ needs_update(self_rec[1], other_rec[1])
          = FieldsDiffer(self_rec[1], other_rec[1])
    /\ upd_ret # None =>
          /\ nu_before = Some(FieldsDiffer(self_before[1], other_rec[1]))
          /\ upd_ret = nu_before
          /\ ~needs_update(self_rec[1], other_rec[1])
          /\ self_rec[1].destination = other_rec[1].destination
          /\ self_rec[1].type = other_rec[1].type

\* update changed the type only and returned True
C8_Witness ==
    /\ upd_ret = Some(TRUE)
    /\ self_before[1].destination = other_rec[1].destination
    /\ self_before[1].type # other_rec[1].type
    /\ self_rec[1].type = other_rec[1].type

\* an identical copy but for id, priority, state and deletion mark
C8_CopyWitness ==
    /\ upd_ret = Some(FALSE)
    /\ self_before[1].id # other_rec[1].id
    /\ self_before[1].priority # other_rec[1].priority
    /\ self_before[1].state # other_rec[1].state
    /\ self_before[1].deleterecord # other_rec[1].deleterecord
    /\ nu_before = Some(FALSE)

---------------------------------------------------------------------------
(* One record set merged with an A and an AAAA record, in both orders *)

InitCommute ==
    /\ set_0 \in FetchedSets \cup BuiltSets
    /\ set_ab = set_0
    /\ set_ba = set_0
    /\ \E h \in Hostnames, d4, d6 \in Destinations :
          /\ rec_a = Some(DesiredRecord(h, "A", d4))
          /\ rec_aaaa = Some(DesiredRecord(h, "AAAA", d6))
    /\ merged = 0
    /\ MergeIdle
    /\ RecordIdle
    /\ SyncIdle

\* records.add(A record) on the one copy, records.add(AAAA record) on the
\* other; a merge that raises ends the caller
MergeFirst ==
    /\ merged = 0
    /\ add(set_ab, rec_a[1]).raised = ""
    /\ add(set_ba, rec_aaaa[1]).raised = ""
    /\ set_ab' = add(set_ab, rec_a[1]).recs
    /\ set_ba' = add(set_ba, rec_aaaa[1]).recs
    /\ merged' = 1
    /\ UNCHANGED <<rec_a, rec_aaaa, set_0, mergeVars, recordVars, syncVars>>

\* then records.add(AAAA record) on the one, records.add(A record) on the
\* other
MergeSecond ==
    /\ merged = 1
    /\ add(set_ab, rec_aaaa[1]).raised = ""
    /\ add(set_ba, rec_a[1]).raised = ""
    /\ set_ab' = add(set_ab, rec_aaaa[1]).recs
    /\ set_ba' = add(set_ba, rec_a[1]).recs
    /\ merged' = 2
    /\ UNCHANGED <<rec_a, rec_aaaa, set_0, mergeVars, recordVars, syncVars>>

NextCommute == MergeFirst \/ MergeSecond

SpecCommute == InitCommute /\ [][NextCommute]_vars

Host == rec_a[1].hostname

\* the records of hostname h as (type, destination, id) triples
HostTriples(recs, h) ==
    {<<HostRecords(recs, h)[k].type, HostRecords(recs, h)[k].destination,
       HostRecords(recs, h)[k].id>> : k \in 1..Len(HostRecords(recs, h))}

\* the records of hostname h as (type, destination) pairs
HostPairs(recs, h) ==
    {<<HostRecords(recs, h)[k].type, HostRecords(recs, h)[k].destination>> :
        k \in 1..Len(HostRecords(recs, h))}

\* the case of C5: both orders done on a set with at most one record of host
C5_Case == merged = 2 /\ Len(HostRecords(set_0, Host)) <= 1

\* C5 as stated: for a record set with zero or one record of host, merging
\* an A and an AAAA record of host gives the same (type, destination, id)
\* triples of host in either order.
C5_SameTriples ==
    C5_Case => HostTriples(set_ab, Host) = HostTriples(set_ba, Host)

\* C5 as amended: the two orders give the same (type, destination) pairs of
\* host, and the same (type, destination, id) triples when the set held no
\* record of host or one of type A or AAAA.
C5_Commute ==
    C5_Case =>
        /\ HostPairs(set_ab, Host) = HostPairs(set_ba, Host)
        /\ HostTypes(set_0, Host) \subseteq {"A", "AAAA"} =>
              HostTriples(set_ab, Host) = HostTriples(set_ba, Host)

\* an existing A record with an id, merged in both orders
C5_Witness ==
    /\ C5_Case
    /\ HostTypes(set_0, Host) = {"A"}
    /\ set_ab # set_0
    /\ Cardinality(HostTriples(set_ab, Host)) = 2
    /\ HostTriples(set_ab, Host) = HostTriples(set_ba, Host)

---------------------------------------------------------------------------
(* dyndns.py: the hosts file and the merge of one domain *)

\* the external ip used when a host entry gives no destination
ExternalIp == "203.0.113.7"

\* one entry of "hosts" in the hosts file; a key that is missing is None
HostEntry(hostname, type, destination) ==
    [hostname |-> hostname, type |-> type, destination |-> destination]

\* import_hosts, one turn of its loop: acc is [recs, raised]
import_host(acc, h) ==
    IF acc.raised # "" THEN acc
    ELSE IF h.hostname = None \/ h.type = None
         THEN [recs |-> acc.recs, raised |-> "KeyError"]
         ELSE LET destination == IF h.destination # None
                                 THEN h.destination[1] ELSE ExternalIp
                  a == add(acc.recs,
                           DesiredRecord(h.hostname[1], h.type[1], destination))
              IN  [recs |-> a.recs, raised |-> a.raised]

RECURSIVE import_hosts_from(_, _, _)
import_hosts_from(acc, hosts, i) ==
    IF i > Len(hosts) THEN acc
    ELSE import_hosts_from(import_host(acc, hosts[i]), hosts, i + 1)

\* import_hosts: [recs |-> the records built, raised |-> the exception or ""]
import_hosts(hosts) ==
    import_hosts_from([recs |-> <<>>, raised |-> ""], hosts, 1)

\* modify_recordset, one turn of its loop: acc is [recs, changed, raised].
\* get_by_hostname returns a list, and a list has no needs_update: a new
\* record whose hostname is in old_set raises AttributeError.
modify_record(acc, new_record) ==
    IF acc.raised # "" THEN acc
    ELSE IF get_by_hostname(acc.recs, new_record.hostname) # <<>>
         THEN [acc EXCEPT !.raised = "AttributeError"]
         ELSE LET a == add(acc.recs, new_record)
              IN  [recs |-> a.recs, changed |-> TRUE, raised |-> a.raised]

RECURSIVE modify_recordset_from(_, _, _)
modify_recordset_from(acc, new_set, i) ==
    IF i > Len(new_set) THEN acc
    ELSE modify_recordset_from(modify_record(acc, new_set[i]), new_set, i + 1)

\* modify_recordset: [recs |-> old_set afterwards, changed, raised]
modify_recordset(old, new_set) ==
    modify_recordset_from([recs |-> old, changed |-> FALSE, raised |-> ""],
                          new_set, 1)

\* line 141: "ttl" in settings and settings.get("ttl") != zone.ttl
ttl_changed(stg, z) == stg.ttl # None /\ stg.ttl[1] # z.ttl

---------------------------------------------------------------------------
(* NcAPI: the requests *)

api_key      == "key"
api_password == "password"
customer_id  == "12345"

\* nc_request: the payload of an action; parameters given by the caller
\* come last in the dictionaries and win
nc_request(action, parameters, sid) ==
    LET params == IF action # "login"
                  THEN parameters @@ [apisessionid |-> sid]
                  ELSE parameters
    IN  [action |-> action,
         param  |-> params @@ [customernumber |-> customer_id,
                               apikey |-> api_key]]

\* DNSZone, of which the pass reads and writes the ttl; the other fields of
\* the remote's answer are carried along unread
DNSZone(name, ttl) == [name |-> name, ttl |-> ttl]

\* the parameters of each action
login_parameters == [apipassword |-> api_password]
logout_parameters == <<>>
info_parameters(name) == [domainname |-> name]
updateDnsZone_parameters(z) == [domainname |-> z.name, dnszone |-> z]
updateDnsRecords_parameters(z, recs) ==
    [domainname |-> z.name, dnsrecordset |-> [dnsrecords |-> recs]]

\* an __exit__ that logs out whether a session id is stored or not
exit_always_logs_out(sid, args) == TRUE

\* an __exit__ that logs out only when the with body ended normally
exit_logs_out_unless_raised(sid, args) == sid # None /\ args = None

\* __exit__, line 32: whether it logs out; args is the exception handed to
\* it, which this test does not read
exit_logs_out(sid, args) == sid # None

---------------------------------------------------------------------------
(* One pass of dyndns: the inputs and the remote's answers *)

\* the longest chain of _send calls suspended in self.__exit__(): the
\* remote answers a logout with an error only below this depth
MaxDepth == 2

\* the status field of the remote's answers
Statuses == {"success", "Success", "error"}

\* what the remote answers a post with: an HTTP status that
\* raise_for_status accepts and a body with a status, or an HTTP error
Responses ==
    {[http_ok |-> TRUE, status |-> st] : st \in Statuses}
        \cup {[http_ok |-> FALSE, status |-> ""]}

\* str.lower on the status strings
str_lower(st) == IF st = "Success" THEN "success" ELSE st

\* _send, lines 81-88: what becomes of a response.  "transport":
\* raise_for_status raises; "error": the lowered status is not "success";
\* "success": responsedata is returned
Outcome(resp) ==
    IF ~resp.http_ok THEN "transport"
    ELSE IF str_lower(resp.status) # "success" THEN "error"
    ELSE "success"

Answers == {Outcome(resp) : resp \in Responses}

SessionIds == {"sid-1"}
Ttls == {3600, 7200}

\* the "ttl" of the remote's answer to infoDnsZone, a string
ResponseTtls == {"3600", "7200"}

\* int(response["ttl"]) on these strings
int(st) == IF st = "3600" THEN 3600 ELSE 7200
DomainLists == {<<>>, <<"example.org">>, <<"example.org", "example.net">>}

\* the record sets the remote answers infoDnsRecords with
RemoteSets ==
    { <<>>,
      <<FetchedRecord(1, "www", "A", "192.0.2.1")>>,
      <<FetchedRecord(1, "www", "A", "192.0.2.1"),
        FetchedRecord(2, "www", "AAAA", "2001:db8::1")>>,
      <<FetchedRecord(1, "mail", "CNAME", "192.0.2.1")>> }

\* the "hosts" lists of the hosts file
HostsLists ==
    { <<>>,
      <<HostEntry(Some("www"), Some("A"), Some("192.0.2.1"))>>,
      <<HostEntry(Some("www"), Some("A"), Some("2001:db8::1"))>>,
      <<HostEntry(Some("mail"), Some("A"), None)>>,
      <<HostEntry(Some("www"), Some("A"), Some("192.0.2.1")),
        HostEntry(Some("www"), Some("AAAA"), Some("2001:db8::1"))>>,
      <<HostEntry(Some("www"), Some("A"), Some("192.0.2.1")),
        HostEntry(Some("mail"), Some("A"), Some("192.0.2.1"))>>,
      <<HostEntry(Some("www"), Some("A"), Some("192.0.2.1")),
        HostEntry(Some("www"), Some("AAAA"), Some("2001:db8::1")),
        HostEntry(Some("www"), Some("CNAME"), Some("192.0.2.1"))>>,
      <<HostEntry(None, Some("A"), Some("192.0.2.1"))>>,
      <<HostEntry(Some("www"), None, Some("192.0.2.1"))>> }

\* a domain's entry of the hosts file: "hosts" and, if given, "ttl"
SettingsPool ==
    {[hosts |-> h, ttl |-> t] :
        h \in HostsLists, t \in {None} \cup {Some(x) : x \in Ttls}}

\* a request as it went over the wire, the answer it got and, for a login
\* that succeeded, the session id the remote returned
Wire(pl, ans, sid) ==
    [action         |-> pl.action,
     keys           |-> DOMAIN pl.param,
     apisessionid   |-> IF "apisessionid" \in DOMAIN pl.param
                        THEN pl.param.apisessionid ELSE None,
     customernumber |-> pl.param.customernumber,
     apikey         |-> pl.param.apikey,
     domainname     |-> IF "domainname" \in DOMAIN pl.param
                        THEN Some(pl.param.domainname) ELSE None,
     ttl            |-> IF "dnszone" \in DOMAIN pl.param
                        THEN Some(pl.param.dnszone.ttl) ELSE None,
     answer         |-> ans,
     returned       |-> sid]

\* self.session.post(url, json=payload) in _send, answered with ans
PostLogin(action, parameters, ans, sid) ==
    /\ payload' = Some(nc_request(action, parameters, session_id))
    /\ sent' = Append(sent,
                      Wire(nc_request(action, parameters, session_id), ans, sid))

Post(action, parameters, ans) == PostLogin(action, parameters, ans, None)

InitSync ==
    /\ pc = "enter"
    /\ session_id = None
    /\ stack = <<>>
    /\ exc = None
    /\ sent = <<>>
    /\ payload = None
    /\ update_mode \in BOOLEAN
    /\ zones \in DomainLists
    /\ domainname = None
    /\ settings = None
    /\ zone = None
    /\ old_set = <<>>
    /\ changed = FALSE
    /\ changed_ttl = FALSE
    /\ MergeIdle
    /\ RecordIdle
    /\ CommuteIdle

\* the pass touches none of the variables of the other specifications
PassOnly == UNCHANGED <<mergeVars, recordVars, commuteVars>>

\* _send of an action of the with body whose answer is not a success.
\* raise_for_status raises HTTPError out of the body.  A status other than
\* success calls self.__exit__(), which logs out while a session id is
\* stored, before APIException is raised.
SendFails(action, ans) ==
    /\ ans # "success"
    /\ IF ans = "transport"
       THEN /\ exc' = <<"HTTPError", action>>
            /\ pc' = "exit"
            /\ stack' = stack
       ELSE IF exit_logs_out(session_id, None)
            THEN /\ stack' = Append(stack, action)
                 /\ pc' = "teardown"
                 /\ exc' = exc
            ELSE /\ exc' = <<"APIException", action>>
                 /\ pc' = "exit"
                 /\ stack' = stack
    /\ UNCHANGED session_id

\* __enter__: _login.  An exception of __enter__ leaves the with statement
\* without a call of __exit__; after an error status _send has called
\* self.__exit__() itself, which finds no session id.
Login(ans) ==
    /\ pc = "enter"
    /\ PassOnly
    /\ IF ans = "success"
       THEN /\ \E sid \in SessionIds :
                 /\ PostLogin("login", login_parameters, ans, Some(sid))
                 /\ session_id' = Some(sid)
            /\ pc' = "loop"
            /\ exc' = exc
       ELSE /\ Post("login", login_parameters, ans)
            /\ session_id' = session_id
            /\ pc' = "done"
            /\ exc' = IF ans = "transport" THEN <<"HTTPError", "login">>
                                           ELSE <<"APIException", "login">>
    /\ UNCHANGED <<stack, passVars>>

\* line 121: the for loop takes the next domain, or the with body ends.
\* The domain's entry of the hosts file is drawn here: nothing reads it
\* earlier.
Iterate ==
    /\ pc = "loop"
    /\ PassOnly
    /\ IF zones # <<>>
       THEN /\ domainname' = Some(Head(zones))
            /\ zones' = Tail(zones)
            /\ settings' \in {Some(stg) : stg \in SettingsPool}
            /\ pc' = "infoDnsZone"
       ELSE /\ pc' = "exit"
            /\ UNCHANGED <<domainname, zones, settings>>
    /\ UNCHANGED <<session_id, stack, exc, sent, payload, update_mode, zone,
                   old_set, changed, changed_ttl>>

\* line 125: zone = api.infoDnsZone(domainname)
ReadZone(ans) ==
    /\ pc = "infoDnsZone"
    /\ PassOnly
    /\ Post("infoDnsZone", info_parameters(domainname[1]), ans)
    /\ IF ans = "success"
       THEN /\ \E t \in ResponseTtls :
                 zone' = Some(DNSZone(domainname[1], int(t)))
            /\ pc' = "infoDnsRecords"
            /\ UNCHANGED <<session_id, stack, exc>>
       ELSE /\ SendFails("infoDnsZone", ans)
            /\ zone' = zone
    /\ UNCHANGED <<update_mode, zones, domainname, settings, old_set,
                   changed, changed_ttl>>

\* line 129: old_set = api.infoDnsRecords(domainname)
ReadRecords(ans) ==
    /\ pc = "infoDnsRecords"
    /\ PassOnly
    /\ Post("infoDnsRecords", info_parameters(domainname[1]), ans)
    /\ IF ans = "success"
       THEN /\ old_set' \in RemoteSets
            /\ pc' = "merge"
            /\ UNCHANGED <<session_id, stack, exc>>
       ELSE /\ SendFails("infoDnsRecords", ans)
            /\ old_set' = old_set
    /\ UNCHANGED <<update_mode, zones, domainname, settings, zone,
                   changed, changed_ttl>>

\* where the pass goes after the merge, lines 146-160
\* a pass that writes what changed whether update is on or not
AfterMerge_ignores_update(ch, ch_ttl) ==
    IF ch_ttl THEN "updateDnsZone"
    ELSE IF ch THEN "updateDnsRecords"
    ELSE "loop"

AfterMerge(ch, ch_ttl) ==
    IF update_mode /\ ch_ttl THEN "updateDnsZone"
    ELSE IF update_mode /\ ch THEN "updateDnsRecords"
    ELSE "loop"

\* lines 133-144: import_hosts, modify_recordset and the ttl.  An
\* exception of either leaves the with body.
Merge ==
    /\ pc = "merge"
    /\ PassOnly
    /\ LET new_set == import_hosts(settings[1].hosts)
           m == modify_recordset(old_set, new_set.recs)
           ch_ttl == ttl_changed(settings[1], zone[1])
       IN  IF new_set.raised # ""
           THEN /\ exc' = <<new_set.raised, "import_hosts">>
                /\ pc' = "exit"
                /\ UNCHANGED <<old_set, changed, changed_ttl, zone>>
           ELSE IF m.raised # ""
                THEN /\ exc' = <<m.raised, "modify_recordset">>
                     /\ pc' = "exit"
                     /\ old_set' = m.recs
                     /\ UNCHANGED <<changed, changed_ttl, zone>>
                ELSE /\ old_set' = m.recs
                     /\ changed' = m.changed
                     /\ changed_ttl' = ch_ttl
                     /\ zone' = IF ch_ttl
                                THEN Some([zone[1] EXCEPT !.ttl = settings[1].ttl[1]])
                                ELSE zone
                     /\ pc' = AfterMerge(m.changed, ch_ttl)
                     /\ exc' = exc
    /\ UNCHANGED <<session_id, stack, sent, payload, update_mode, zones,
                   domainname, settings>>

\* a pass that goes on from updateDnsZone without reading the zone again
AfterWriteZone_without_reread == "updateDnsRecords"

\* lines 150-153: after updateDnsZone the zone is read again
AfterWriteZone == "infoDnsZone2"

\* line 150: api.updateDnsZone(zone)
WriteZone(ans) ==
    /\ pc = "updateDnsZone"
    /\ PassOnly
    /\ Post("updateDnsZone", updateDnsZone_parameters(zone[1]), ans)
    /\ IF ans = "success"
       THEN /\ pc' = AfterWriteZone
            /\ UNCHANGED <<session_id, stack, exc>>
       ELSE SendFails("updateDnsZone", ans)
    /\ UNCHANGED passVars

\* line 153: print(api.infoDnsZone(domainname).table())
RereadZone(ans) ==
    /\ pc = "infoDnsZone2"
    /\ PassOnly
    /\ Post("infoDnsZone", info_parameters(domainname[1]), ans)
    /\ IF ans = "success"
       THEN /\ pc' = IF changed THEN "updateDnsRecords" ELSE "loop"
            /\ UNCHANGED <<session_id, stack, exc>>
       ELSE SendFails("infoDnsZone", ans)
    /\ UNCHANGED passVars

\* line 155: api.updateDnsRecords(zone, updated_set)
WriteRecords(ans) ==
    /\ pc = "updateDnsRecords"
    /\ PassOnly
    /\ Post("updateDnsRecords", updateDnsRecords_parameters(zone[1], old_set), ans)
    /\ IF ans = "success"
       THEN /\ pc' = "infoDnsRecords2"
            /\ UNCHANGED <<session_id, stack, exc>>
       ELSE SendFails("updateDnsRecords", ans)
    /\ UNCHANGED passVars

\* line 158: print(api.infoDnsRecords(domainname).table())
RereadRecords(ans) ==
    /\ pc = "infoDnsRecords2"
    /\ PassOnly
    /\ Post("infoDnsRecords", info_parameters(domainname[1]), ans)
    /\ IF ans = "success"
       THEN /\ pc' = "loop"
            /\ UNCHANGED <<session_id, stack, exc>>
       ELSE SendFails("infoDnsRecords", ans)
    /\ UNCHANGED passVars

\* an APIException that always carries the message of the logout's answer
teardown_exception_of_logout(stk) == <<"APIException", "logout">>

\* line 88: the innermost suspended _send raises APIException with the
\* longmessage of the answer it had got
teardown_exception(stk) == <<"APIException", stk[Len(stk)]>>

\* where an exception goes that leaves the outermost suspended _send: into
\* the with body, whose with statement then calls __exit__, or, when the
\* chain began in that __exit__, out of the with statement
Unwound == IF stack[1] = "logout" THEN "done" ELSE "exit"

\* self.__exit__() called by a suspended _send: _logout posts a logout.
\*   success:   _logout clears the session id and the innermost suspended
\*              _send raises its APIException, which unwinds every caller
\*   transport: HTTPError unwinds every caller, the session id stays
\*   error:     this _send calls self.__exit__() in turn
TeardownLogout(ans) ==
    /\ pc = "teardown"
    /\ PassOnly
    /\ ans = "error" => Len(stack) < MaxDepth
    /\ Post("logout", logout_parameters, ans)
    /\ IF ans = "success"
       THEN /\ session_id' = None
            /\ exc' = teardown_exception(stack)
            /\ stack' = <<>>
            /\ pc' = Unwound
       ELSE IF ans = "transport"
            THEN /\ exc' = <<"HTTPError", "logout">>
                 /\ stack' = <<>>
                 /\ pc' = Unwound
                 /\ UNCHANGED session_id
            ELSE /\ stack' = Append(stack, "logout")
                 /\ UNCHANGED <<session_id, exc, pc>>
    /\ UNCHANGED passVars

\* __exit__ called by the with statement, with the exception in flight:
\* it logs out while a session id is stored.  An exception of __exit__
\* replaces the one in flight.
Exit(ans) ==
    /\ pc = "exit"
    /\ PassOnly
    /\ IF exit_logs_out(session_id, exc)
       THEN /\ Post("logout", logout_parameters, ans)
            /\ IF ans = "success"
               THEN /\ session_id' = None
                    /\ pc' = "done"
                    /\ UNCHANGED <<stack, exc>>
               ELSE IF ans = "transport"
                    THEN /\ exc' = <<"HTTPError", "logout">>
                         /\ pc' = "done"
                         /\ UNCHANGED <<session_id, stack>>
                    ELSE /\ stack' = <<"logout">>
                         /\ pc' = "teardown"
                         /\ UNCHANGED <<session_id, exc>>
       ELSE /\ ans = "success"
            /\ pc' = "done"
            /\ UNCHANGED <<session_id, stack, exc, sent, payload>>
    /\ UNCHANGED passVars

NextSync ==
    \/ \E ans \in Answers : Login(ans)
    \/ Iterate
    \/ \E ans \in Answers : ReadZone(ans)
    \/ \E ans \in Answers : ReadRecords(ans)
    \/ Merge
    \/ \E ans \in Answers : WriteZone(ans)
    \/ \E ans \in Answers : RereadZone(ans)
    \/ \E ans \in Answers : WriteRecords(ans)
    \/ \E ans \in Answers : RereadRecords(ans)
    \/ \E ans \in Answers : TeardownLogout(ans)
    \/ \E ans \in Answers : Exit(ans)

SpecSync == InitSync /\ [][NextSync]_vars

---------------------------------------------------------------------------
(* The session claims, about the requests of one pass *)

\* request i is a login that succeeded
LoginSucceeded(i) ==
    sent[i].action = "login" /\ sent[i].answer = "success"

\* request j is a logout of the session that login i opened
LogoutOf(i, j) ==
    /\ j > i
    /\ sent[j].action = "logout"
    /\ sent[j].apisessionid = sent[i].returned

\* C9: when the pass has ended and its login had succeeded, a logout of
\* that session was sent, whichever way the pass ended.
C9_LogoutBeforeEnd ==
    pc = "done" =>
        \A i \in 1..Len(sent) :
            LoginSucceeded(i) => \E j \in 1..Len(sent) : LogoutOf(i, j)

\* the pass ended by an API error of an action, and logged out
C9_Witness ==
    /\ pc = "done"
    /\ exc = <<"APIException", "infoDnsRecords">>
    /\ LoginSucceeded(1)
    /\ \E j \in 1..Len(sent) : LogoutOf(1, j)

\* the pass ended normally after both writes, and logged out
C9_NormalWitness ==
    /\ pc = "done" /\ exc = None
    /\ \E k \in 1..Len(sent) : sent[k].action = "updateDnsRecords"
    /\ \E j \in 1..Len(sent) : LogoutOf(1, j)

\* the pass ended by a transport error of an action, and logged out
C9_TransportWitness ==
    /\ pc = "done" /\ exc = <<"HTTPError", "updateDnsZone">>
    /\ \E j \in 1..Len(sent) : LogoutOf(1, j)

\* the pass ended by another exception of the with body, and logged out
C9_OtherWitness ==
    /\ pc = "done" /\ exc = <<"AttributeError", "modify_recordset">>
    /\ \E j \in 1..Len(sent) : LogoutOf(1, j)

\* request i is an action of the with body that failed
ActionFailed(i) ==
    /\ sent[i].action \notin {"login", "logout"}
    /\ sent[i].answer # "success"

\* the error of the failed action i
ActionError(i) ==
    IF sent[i].answer = "error" THEN <<"APIException", sent[i].action>>
                                ELSE <<"HTTPError", sent[i].action>>

\* request j is a logout that failed
LogoutFailed(j) ==
    sent[j].action = "logout" /\ sent[j].answer # "success"

\* C10: when an action failed and a logout of the teardown failed too, the
\* error the pass ends with is the action's error, not the logout's.
C10_OriginalErrorSurfaces ==
    pc = "done" =>
        \A i, j \in 1..Len(sent) :
            (ActionFailed(i) /\ LogoutFailed(j)) => exc = ActionError(i)

\* the last request sent was a logout, and the call that sent it is over:
\* no _send is suspended in a teardown
LogoutReturned ==
    /\ sent # <<>>
    /\ sent[Len(sent)].action = "logout"
    /\ pc # "teardown"

\* C11: once a logout has been called and is over, the stored session id is
\* cleared and no error of the logout reached the caller, whether the
\* logout was answered with success, with another status or not at all.
C11_LogoutAlwaysClears ==
    LogoutReturned =>
        /\ session_id = None
        /\ exc = None \/ exc[2] # "logout"

----------------------------------------------------------------------------
(* An NcAPI object in the hands of any caller: __enter__, the four actions
   and __exit__ in any order, each call run to its end before the next *)

\* the most requests a caller has the object send before a call
MaxSent == 4

\* the session ids the remote hands out
IssuedSessionIds == {"sid-1", "sid-2"}

\* the actions the caller asks for, one that reads and one that writes (the
\* other two pass through nc_request and _send in the same way), and the
\* parameters the caller's arguments make
SessionActions == {"infoDnsZone", "updateDnsZone"}

SessionParameters(action) ==
    CASE action = "infoDnsZone"   -> info_parameters("example.org")
      [] action = "updateDnsZone" ->
            updateDnsZone_parameters(DNSZone("example.org", 3600))

\* a request as it went over the wire, with the status the remote answered
SessionWire(pl, resp, sid) ==
    Wire(pl, Outcome(resp), sid) @@ [status |-> resp.status]

\* self.session.post(url, json=payload) in _send, answered with resp
SessionPost(action, parameters, resp, sid) ==
    /\ payload' = Some(nc_request(action, parameters, session_id))
    /\ sent' = Append(sent,
                      SessionWire(nc_request(action, parameters, session_id),
                                  resp, sid))

InitSession ==
    /\ pc = "idle"
    /\ session_id = None
    /\ stack = <<>>
    /\ exc = None
    /\ sent = <<>>
    /\ payload = None
    /\ update_mode = FALSE
    /\ zones = <<>>
    /\ domainname = None
    /\ settings = None
    /\ zone = None
    /\ old_set = <<>>
    /\ changed = FALSE
    /\ changed_ttl = FALSE
    /\ MergeIdle
    /\ RecordIdle
    /\ CommuteIdle

\* the object's calls touch nothing but the session
SessionOnly == UNCHANGED <<mergeVars, recordVars, commuteVars, passVars>>

\* __enter__: _login, whatever the object's state.  After an error status
\* _send calls self.__exit__(), which logs out if an earlier login's
\* session id is stored.
SessionEnter(resp) ==
    /\ pc = "idle"
    /\ Len(sent) < MaxSent
    /\ SessionOnly
    /\ IF Outcome(resp) = "success"
       THEN /\ \E sid \in IssuedSessionIds :
                 /\ SessionPost("login", login_parameters, resp, Some(sid))
                 /\ session_id' = Some(sid)
            /\ exc' = None
            /\ UNCHANGED <<pc, stack>>
       ELSE /\ SessionPost("login", login_parameters, resp, None)
            /\ session_id' = session_id
            /\ IF Outcome(resp) = "transport"
               THEN /\ exc' = <<"HTTPError", "login">>
                    /\ UNCHANGED <<pc, stack>>
               ELSE IF exit_logs_out(session_id, None)
                    THEN /\ stack' = <<"login">>
                         /\ pc' = "teardown"
                         /\ exc' = None
                    ELSE /\ exc' = <<"APIException", "login">>
                         /\ UNCHANGED <<pc, stack>>

\* infoDnsZone, infoDnsRecords, updateDnsZone, updateDnsRecords: nc_request
\* with the stored session id, whatever it is, and _send
SessionCall(action, resp) ==
    /\ pc = "idle"
    /\ Len(sent) < MaxSent
    /\ SessionOnly
    /\ SessionPost(action, SessionParameters(action), resp, None)
    /\ session_id' = session_id
    /\ IF Outcome(resp) = "success"
       THEN /\ exc' = None
            /\ UNCHANGED <<pc, stack>>
       ELSE IF Outcome(resp) = "transport"
            THEN /\ exc' = <<"HTTPError", action>>
                 /\ UNCHANGED <<pc, stack>>
            ELSE IF exit_logs_out(session_id, None)
                 THEN /\ stack' = <<action>>
                      /\ pc' = "teardown"
                      /\ exc' = None
                 ELSE /\ exc' = <<"APIException", action>>
                      /\ UNCHANGED <<pc, stack>>

\* __exit__ called by the caller: it logs out while a session id is
\* stored, and returns without a request otherwise
SessionRelease(resp) ==
    /\ pc = "idle"
    /\ Len(sent) < MaxSent
    /\ SessionOnly
    /\ IF exit_logs_out(session_id, None)
       THEN /\ SessionPost("logout", logout_parameters, resp, None)
            /\ IF Outcome(resp) = "success"
               THEN /\ session_id' = None
                    /\ exc' = None
                    /\ UNCHANGED <<pc, stack>>
               ELSE IF Outcome(resp) = "transport"
                    THEN /\ exc' = <<"HTTPError", "logout">>
                         /\ UNCHANGED <<session_id, pc, stack>>
                    ELSE /\ stack' = <<"logout">>
                         /\ pc' = "teardown"
                         /\ exc' = None
                         /\ UNCHANGED session_id
       ELSE /\ Outcome(resp) = "success"
            /\ exc' = None
            /\ UNCHANGED <<session_id, pc, stack, sent, payload>>

\* _logout called by the self.__exit__() of a _send that got an error
\* status; when it returns or raises, the call the caller made is over
SessionTeardown(resp) ==
    /\ pc = "teardown"
    /\ SessionOnly
    /\ Outcome(resp) = "error" => Len(stack) < MaxDepth
    /\ SessionPost("logout", logout_parameters, resp, None)
    /\ IF Outcome(resp) = "success"
       THEN /\ session_id' = None
            /\ exc' = teardown_exception(stack)
            /\ stack' = <<>>
            /\ pc' = "idle"
       ELSE IF Outcome(resp) = "transport"
            THEN /\ exc' = <<"HTTPError", "logout">>
                 /\ stack' = <<>>
                 /\ pc' = "idle"
                 /\ UNCHANGED session_id
            ELSE /\ stack' = Append(stack, "logout")
                 /\ UNCHANGED <<session_id, exc, pc>>

NextSession ==
    \/ \E resp \in Responses : SessionEnter(resp)
    \/ \E action \in SessionActions, resp \in Responses :
            SessionCall(action, resp)
    \/ \E resp \in Responses : SessionRelease(resp)
    \/ \E resp \in Responses : SessionTeardown(resp)

SpecSession == InitSession /\ [][NextSession]_vars

\* request i is an action sent with a session id
Authenticated(i) ==
    /\ sent[i].action \in SessionActions
    /\ sent[i].apisessionid # None

\* request i was answered, and with a status that is, whatever its case,
\* not "success"
AnsweredNotSuccess(i) ==
    /\ sent[i].answer # "transport"
    /\ sent[i].status \notin {"success", "Success"}

\* the last request is the logout of a teardown, answered with success,
\* and the one before is the authenticated action that the status failed
TornDown ==
    /\ Len(sent) >= 2
    /\ Authenticated(Len(sent) - 1)
    /\ AnsweredNotSuccess(Len(sent) - 1)
    /\ sent[Len(sent)].action = "logout"
    /\ sent[Len(sent)].answer = "success"

\* C12: when an authenticated action is answered with a status other than
\* success and the logout of the teardown with success, the step that gets
\* the logout's answer ends the action's call with the session id cleared
\* and with an APIException that carries the message of the action's answer.
C12_TeardownThenApiError ==
    [][(Len(sent') = Len(sent) + 1 /\ TornDown') =>
            /\ pc' = "idle"
            /\ session_id' = None
            /\ exc' = <<"APIException", sent[Len(sent)].action>>]_vars

\* a write was answered with an error status and the logout with success
C12_Witness ==
    /\ TornDown
    /\ Len(sent) = 3
    /\ LoginSucceeded(1)
    /\ sent[2].action = "updateDnsZone"
    /\ sent[2].status = "error"
    /\ session_id = None
    /\ exc = <<"APIException", "updateDnsZone">>

\* action i was answered with an error status and the teardown that
\* followed logged out with success
ForcedTeardown(i) ==
    /\ Authenticated(i)
    /\ AnsweredNotSuccess(i)
    /\ i < Len(sent)
    /\ sent[i + 1].action = "logout"
    /\ sent[i + 1].answer = "success"

\* C13: after a forced teardown the object sends no request of an
\* authenticated action unless a login came in between.
C13_NoRequestAfterTeardown ==
    \A i, j \in 1..Len(sent) :
        (/\ ForcedTeardown(i)
         /\ i < j
         /\ \A k \in (i + 1)..(j - 1) : sent[k].action # "login")
            => sent[j].action \notin SessionActions

\* login i succeeded and no login after it and before request j did
LatestLogin(i, j) ==
    /\ i < j
    /\ LoginSucceeded(i)
    /\ \A k \in (i + 1)..(j - 1) : ~LoginSucceeded(k)

\* C15: every request but a login carries as apisessionid the id that the
\* latest successful login returned, never none; a login carries no
\* apisessionid; every request carries customernumber and apikey.
C15_RequestCarriesSession ==
    \A j \in 1..Len(sent) :
        /\ {"customernumber", "apikey"} \subseteq sent[j].keys
        /\ sent[j].customernumber = customer_id
        /\ sent[j].apikey = api_key
        /\ IF sent[j].action = "login"
           THEN "apisessionid" \notin sent[j].keys
           ELSE /\ "apisessionid" \in sent[j].keys
                /\ sent[j].apisessionid # None
                /\ \E i \in 1..Len(sent) :
                      /\ LatestLogin(i, j)
                      /\ sent[j].apisessionid = sent[i].returned

\* the updateDnsZone requests sent for domain d
ZoneWrites(d) ==
    {i \in 1..Len(sent) :
        sent[i].action = "updateDnsZone" /\ sent[i].domainname = Some(d)}

\* the merge of the current domain is done and its zone write, if any, sent
ZoneSettled ==
    /\ domainname # None
    /\ pc \in {"infoDnsZone2", "updateDnsRecords", "infoDnsRecords2", "loop"}

\* the step that computes changed_ttl: the merge, when nothing is raised
TtlStep == pc = "merge" /\ pc' \notin {"merge", "exit"}

\* the zone writes of the pass so far are as changed_ttl says
ZoneWritesAsFlagged ==
    /\ \A i \in 1..Len(sent) : sent[i].action = "updateDnsZone" => update_mode
    /\ \A d \in {"example.org", "example.net"} : Cardinality(ZoneWrites(d)) <= 1
    /\ pc = "updateDnsZone" =>
          /\ update_mode /\ changed_ttl
          /\ ZoneWrites(domainname[1]) = {}
    /\ ZoneSettled =>
          /\ Cardinality(ZoneWrites(domainname[1])) =
                IF update_mode /\ changed_ttl THEN 1 ELSE 0
          /\ \A i \in ZoneWrites(domainname[1]) : sent[i].ttl = settings[1].ttl

\* modify_recordset raised for the current domain: zone is still the zone
\* as read, and the pass sends nothing more for the domain
ReconcileRaised ==
    /\ domainname # None
    /\ exc = <<"AttributeError", "modify_recordset">>

\* the settings of the current domain give a ttl other than the zone's
TtlDiffers == settings[1].ttl # None /\ settings[1].ttl[1] # zone[1].ttl

\* a domain with a differing ttl gets its zone write with update on, also
\* when its records could not be reconciled
ZoneWrittenThoughRaised ==
    (ReconcileRaised /\ update_mode /\ TtlDiffers) =>
        Cardinality(ZoneWrites(domainname[1])) = 1

\* C16: for each domain changed_ttl is true exactly if the settings give a
\* ttl and it differs from the ttl of the zone as read, and the zone then
\* carries the ttl of the settings; with update on, one updateDnsZone
\* carrying that ttl is sent for the domain if the ttl differs, and none
\* if it does not.
C16_ZoneWrittenIffTtlChanged ==
    /\ []ZoneWrittenThoughRaised
    /\ []ZoneWritesAsFlagged
    /\ [][TtlStep =>
            /\ changed_ttl' =
                  (settings[1].ttl # None /\ settings[1].ttl[1] # zone[1].ttl)
            /\ zone'[1].ttl = IF changed_ttl' THEN settings[1].ttl[1]
                                              ELSE zone[1].ttl]_vars

\* the ttl differed and one updateDnsZone with the new ttl was sent
C16_Witness ==
    /\ pc = "loop" /\ exc = None
    /\ update_mode /\ changed_ttl
    /\ domainname = Some("example.org")
    /\ \E i \in ZoneWrites("example.org") :
          sent[i].ttl = Some(7200) /\ sent[i].answer = "success"

\* the settings give the ttl the zone has: records written, the zone not
C16_SuppressedWitness ==
    /\ pc = "loop" /\ exc = None
    /\ update_mode /\ ~changed_ttl /\ changed
    /\ settings # None /\ settings[1].ttl = Some(3600)
    /\ domainname = Some("example.org")
    /\ ZoneWrites("example.org") = {}
    /\ \E i \in 1..Len(sent) : sent[i].action = "updateDnsRecords"

\* the desired records of the current domain, if import_hosts accepts them
Desired == import_hosts(settings[1].hosts)

\* desired record r is in old_set as the remote gave it: a record with an
\* id of the same hostname, type and destination
AlreadyThere(r) ==
    \E k \in 1..Len(old_set) :
        /\ old_set[k].id # None
        /\ old_set[k].hostname = r.hostname
        /\ old_set[k].type = r.type
        /\ old_set[k].destination = r.destination

\* there are desired records and each of them is in the remote's set
NothingToChange ==
    /\ settings # None
    /\ Desired.raised = ""
    /\ Desired.recs # <<>>
    /\ \A n \in 1..Len(Desired.recs) : AlreadyThere(Desired.recs[n])

\* the updateDnsRecords requests sent for domain d
RecordWrites(d) ==
    {i \in 1..Len(sent) :
        sent[i].action = "updateDnsRecords" /\ sent[i].domainname = Some(d)}

\* the merge of the current domain has run
Merged ==
    /\ domainname # None
    /\ \/ pc \in {"updateDnsZone", "infoDnsZone2", "updateDnsRecords",
                   "infoDnsRecords2", "loop"}
       \/ exc # None /\ exc[2] \in {"import_hosts", "modify_recordset"}

\* C17: when every desired record is in the remote's set with the same
\* hostname, type and destination, the merge ends with changed false and no
\* updateDnsRecords is sent for the domain; and once a domain is through,
\* an updateDnsRecords was sent for it exactly if update is on and changed
\* is true.
C17_UnchangedSendsNothing ==
    /\ (Merged /\ NothingToChange) =>
          /\ exc = None
          /\ ~changed
          /\ RecordWrites(domainname[1]) = {}
    /\ (domainname # None /\ pc = "loop") =>
          (RecordWrites(domainname[1]) # {}) = (update_mode /\ changed)

\* C18: with update off the pass sends no updateDnsZone and no
\* updateDnsRecords: its requests are login, infoDnsZone, infoDnsRecords
\* and logout only.
C18_DryRunReadsOnly ==
    ~update_mode =>
        \A i \in 1..Len(sent) :
            sent[i].action \in
                {"login", "infoDnsZone", "infoDnsRecords", "logout"}

\* a pass with update off ended normally with records and ttl changed
C18_Witness ==
    /\ ~update_mode
    /\ pc = "done" /\ exc = None
    /\ changed /\ changed_ttl
    /\ \E i \in 1..Len(sent) : sent[i].action = "infoDnsRecords"
    /\ sent[Len(sent)].action = "logout"

\* a record of the current domain's hosts lacks "hostname" or "type"
LacksKey ==
    /\ settings # None
    /\ \E n \in 1..Len(settings[1].hosts) :
          \/ settings[1].hosts[n].hostname = None
          \/ settings[1].hosts[n].type = None

\* import_hosts has turned the hosts down
Rejected == exc = <<"KeyError", "import_hosts">>

\* C19: hosts with a record that lacks hostname or type are turned down
\* before any request, the login included, is sent.
C19_RejectedBeforeAnyRequest ==
    (LacksKey /\ Rejected) => sent = <<>>

\* the requests of the with body, each for a domain
DomainActions ==
    {"infoDnsZone", "infoDnsRecords", "updateDnsZone", "updateDnsRecords"}

\* requests i and k are for the same domain
SameDomain(i, k) == sent[i].domainname = sent[k].domainname

\* request i is the first one for its domain
FirstOfDomain(i) == \A k \in 1..(i - 1) : ~SameDomain(i, k)

\* request k, for the domain of request i, has action a
IsFor(k, i, a) == sent[k].action = a /\ SameDomain(k, i)

\* what may come right before request i, by the action of i
FollowsInOrder(i) ==
    CASE sent[i].action = "infoDnsZone" ->
            \/ FirstOfDomain(i)
            \/ IsFor(i - 1, i, "updateDnsZone")
      [] sent[i].action = "infoDnsRecords" ->
            \/ IsFor(i - 1, i, "infoDnsZone") /\ FirstOfDomain(i - 1)
            \/ IsFor(i - 1, i, "updateDnsRecords")
      [] sent[i].action = "updateDnsZone" ->
            /\ IsFor(i - 1, i, "infoDnsRecords")
            /\ IsFor(i - 2, i, "infoDnsZone")
            /\ FirstOfDomain(i - 2)
      [] sent[i].action = "updateDnsRecords" ->
            /\ \/ /\ IsFor(i - 1, i, "infoDnsRecords")
                  /\ IsFor(i - 2, i, "infoDnsZone")
                  /\ FirstOfDomain(i - 2)
               \/ /\ IsFor(i - 1, i, "infoDnsZone")
                  /\ IsFor(i - 2, i, "updateDnsZone")
            /\ \A k \in 1..(i - 1) : ~IsFor(k, i, "updateDnsRecords")

\* C20: the requests for a domain come in the order infoDnsZone,
\* infoDnsRecords, then updateDnsZone with infoDnsZone right after it, then
\* updateDnsRecords with infoDnsRecords right after it, all after the login
\* and before any logout; updateDnsRecords never comes before the
\* updateDnsZone of its domain and not at all when that updateDnsZone
\* failed.
C20_RequestOrder ==
    \A i \in 1..Len(sent) :
        sent[i].action \in DomainActions =>
            /\ i > 1
            /\ LoginSucceeded(1)
            /\ \A k \in 1..(i - 1) : sent[k].action # "logout"
            /\ sent[i - 1].answer = "success"
            /\ FollowsInOrder(i)
            /\ (sent[i].action = "updateDnsZone" /\ sent[i].answer = "success"
                    /\ i < Len(sent))
                  => IsFor(i + 1, i, "infoDnsZone")
            /\ (sent[i].action = "updateDnsRecords"
                    /\ sent[i].answer = "success" /\ i < Len(sent))
                  => IsFor(i + 1, i, "infoDnsRecords")
            /\ sent[i].action = "updateDnsZone" =>
                  /\ \A k \in 1..(i - 1) : ~IsFor(k, i, "updateDnsRecords")
                  /\ sent[i].answer # "success" =>
                        \A k \in 1..Len(sent) : ~IsFor(k, i, "updateDnsRecords")

\* a domain got both writes, each read again, and the pass logged out
C20_Witness ==
    /\ pc = "done" /\ exc = None
    /\ Len(sent) = 8
    /\ sent[2].action = "infoDnsZone"
    /\ sent[3].action = "infoDnsRecords"
    /\ sent[4].action = "updateDnsZone"
    /\ sent[5].action = "infoDnsZone"
    /\ sent[6].action = "updateDnsRecords"
    /\ sent[7].action = "infoDnsRecords"
    /\ sent[8].action = "logout"

\* an updateDnsZone failed and the pass sent no updateDnsRecords
C20_FailedWriteWitness ==
    /\ pc = "done" /\ changed
    /\ exc = <<"APIException", "updateDnsZone">>
    /\ \A i \in 1..Len(sent) : sent[i].action # "updateDnsRecords"

\* a login succeeded before request j and no logout was sent since
OpenSessionBefore(j) ==
    \E i \in 1..(j - 1) :
        /\ LoginSucceeded(i)
        /\ \A k \in (i + 1)..(j - 1) : sent[k].action # "logout"

\* C14: the first request of a pass is the login; every other request comes
\* after a login that succeeded, with no logout sent in between; after a
\* login that failed the pass sends nothing more.
C14_LoginGuardsRequests ==
    /\ sent # <<>> => sent[1].action = "login"
    /\ \A j \in 1..Len(sent) :
          sent[j].action # "login" => OpenSessionBefore(j)
    /\ (sent # <<>> /\ ~LoginSucceeded(1)) => Len(sent) = 1

\* the logout requests sent after request i
LogoutsAfter(i) ==
    {k \in (i + 1)..Len(sent) : sent[k].action = "logout"}

\* action i of the with body was answered with an error status, and the
\* with statement has not called __exit__ yet: every logout after i is one
\* of the teardown that _send forced
InForcedTeardown(i) ==
    /\ sent[i].action \in DomainActions
    /\ sent[i].answer = "error"
    /\ \/ pc = "exit"
       \/ pc = "teardown" /\ stack[1] # "logout"

\* C21: after an action was answered with an error status the teardown
\* sends at most one logout and then ends with the action's APIException,
\* whatever the remote answers to that logout.
C21_OneLogoutThenFail ==
    \A i \in 1..Len(sent) :
        InForcedTeardown(i) =>
            /\ Cardinality(LogoutsAfter(i)) <= 1
            /\ LogoutsAfter(i) # {} =>
                  /\ pc = "exit"
                  /\ exc = <<"APIException", sent[i].action>>

\* the logouts answered with success that follow login i before the next
\* login that succeeds
SuccessfulLogoutsOf(i) ==
    {j \in (i + 1)..Len(sent) :
        /\ sent[j].action = "logout"
        /\ sent[j].answer = "success"
        /\ \A k \in (i + 1)..(j - 1) : ~LoginSucceeded(k)}

\* C26: every logout request carries a stored session id: none is sent
\* while the id is absent, be it before a login, after a login that failed
\* or after a teardown that logged out; so a login that succeeded is
\* followed by at most one logout answered with success.
C26_NoLogoutWithoutSession ==
    /\ \A j \in 1..Len(sent) :
          sent[j].action = "logout" => sent[j].apisessionid # None
    /\ \A i \in 1..Len(sent) :
          LoginSucceeded(i) => Cardinality(SuccessfulLogoutsOf(i)) <= 1

\* a teardown logged the session out and an __exit__ of the caller after
\* it returned without a request
C26_Witness ==
    /\ pc = "idle" /\ exc = None /\ session_id = None
    /\ Len(sent) = 3
    /\ LoginSucceeded(1)
    /\ ForcedTeardown(2)

\* a login failed and an __exit__ of the caller sent nothing
C26_FailedLoginWitness ==
    /\ pc = "idle" /\ exc = None /\ session_id = None
    /\ Len(sent) = 1
    /\ sent[1].action = "login" /\ sent[1].answer = "error"

----------------------------------------------------------------------------
(* One merge into a record set as the remote gave it: infoDnsRecords takes
   every record of the answer, whatever their hostnames *)

\* the longest record list of an answer of the remote
MaxAnswered == 3

\* the record lists infoDnsRecords can build, the hostname invariant or not
AnsweredSets ==
    LET Triples == Hostnames \X Types \X Destinations
        Lists   == UNION {[1..n -> Triples] : n \in 0..MaxAnswered}
    IN  {[i \in 1..Len(f) |-> FetchedRecord(i, f[i][1], f[i][2], f[i][3])] :
            f \in Lists}

InitFetched ==
    /\ dnsrecords \in AnsweredSets
    /\ record = None
    /\ ret = None
    /\ raised = ""
    /\ old_records = dnsrecords
    /\ RecordIdle
    /\ CommuteIdle
    /\ SyncIdle

\* old_set.add(rec): the one call of DNSRecordSet.add on the fetched set
AddFetched(rec) ==
    /\ record = None
    /\ old_records' = dnsrecords
    /\ record' = Some(rec)
    /\ dnsrecords' = add(dnsrecords, rec).recs
    /\ ret' = add(dnsrecords, rec).ret
    /\ raised' = add(dnsrecords, rec).raised
    /\ UNCHANGED <<recordVars, commuteVars, syncVars>>

NextFetched == \E rec \in DesiredRecords : AddFetched(rec)

SpecFetched == InitFetched /\ [][NextFetched]_vars

\* C22: a merge into a record set with more than two records of the
\* desired hostname raises an error instead of returning a flag, and
\* leaves every record as it was and adds none.
C22_TooManyMatchesRejected ==
    (Called /\ Len(OldPos) > 2) =>
        /\ raised # ""
        /\ ret = None
        /\ dnsrecords = old_records

\* C24: whenever add returns, it returns False exactly if the record list
\* after the call equals, record for record and field for field, the list
\* before it.
C24_FalseIffUnchanged ==
    (Called /\ raised = "") =>
        /\ ret # None
        /\ (ret = Some(FALSE)) = (dnsrecords = old_records)

\* a merge of a record equal to the one in the set returned False and left
\* the set as it was
C24_Witness ==
    /\ Called /\ raised = ""
    /\ Len(OldPos) = 1 /\ ~Differs(OldPos[1])
    /\ ret = Some(FALSE)
    /\ dnsrecords = old_records

\* a merge that wrote a record returned True
C24_ChangedWitness ==
    /\ Called /\ raised = ""
    /\ Len(OldPos) = 1 /\ Differs(OldPos[1])
    /\ ret = Some(TRUE)
    /\ dnsrecords # old_records
    /\ Len(dnsrecords) = Len(old_records)

\* the fields of a record that a merge leaves alone
Identity(r) == <<r.hostname, r.id, r.priority, r.deleterecord, r.state>>

\* C25: a merge, whether it returns or raises, leaves every old record in
\* its place, leaves the records of other hostnames as they are, and
\* changes of the records of the desired hostname neither hostname, id,
\* priority, deleterecord nor state.
C25_MergeFrame ==
    Called =>
        /\ Len(dnsrecords) >= Len(old_records)
        /\ \A p \in 1..Len(old_records) :
              /\ Identity(dnsrecords[p]) = Identity(old_records[p])
              /\ old_records[p].hostname # record[1].hostname =>
                    dnsrecords[p] = old_records[p]

\* a merge overwrote the record of its hostname next to a record of
\* another hostname
C25_Witness ==
    /\ Called /\ raised = "" /\ ret = Some(TRUE)
    /\ Len(old_records) = 2 /\ Len(dnsrecords) = 2
    /\ Len(OldPos) = 1 /\ Differs(OldPos[1])
    /\ dnsrecords[OldPos[1]] = Overwritten(OldPos[1])
    /\ dnsrecords[OldPos[1]].id # None

\* add applied to the desired records from the i-th on, each on the list
\* the one before left: [recs, changed (the or of what add returned),
\* raised]
RECURSIVE MergeEach(_, _, _)
MergeEach(acc, new_set, i) ==
    IF i > Len(new_set) \/ acc.raised # "" THEN acc
    ELSE LET a == add(acc.recs, new_set[i])
         IN  MergeEach([recs    |-> a.recs,
                        changed |-> acc.changed \/ a.ret = Some(TRUE),
                        raised  |-> a.raised],
                       new_set, i + 1)

\* the desired records merged one by one into the set as it was read
MergedInOrder ==
    MergeEach([recs |-> old_set, changed |-> FALSE, raised |-> ""],
              Desired.recs, 1)

\* the step that reconciles the current domain, with desired records that
\* import_hosts accepts and that add merges without raising
ReconcileStep ==
    /\ pc = "merge" /\ pc' # "merge"
    /\ Desired.raised = ""
    /\ MergedInOrder.raised = ""

\* C23: reconciling merges every desired record in order, each into the
\* set the one before left, and changed is the or of what the merges
\* returned.
C23_ReconcileFoldsMerge ==
    [][ReconcileStep =>
            /\ pc' # "exit"
            /\ old_set' = MergedInOrder.recs
            /\ changed' = MergedInOrder.changed]_vars

=============================================================================
